---- MODULE Spec2Model ----
(***************************************************************************)
(* Model of app.py: a Flask application with password and Google OAuth      *)
(* login, a session-held chat transcript, an intent filter in front of the  *)
(* AI completion call, and download of single transcript turns.             *)
(*                                                                          *)
(* Text is a sequence of code points, each written as a one-character       *)
(* string (non-ASCII code points as "U+XXXX").  One request is one action:  *)
(* the action is the whole route handler.  Messages passed to flash() are   *)
(* recorded in the response that carries them.                              *)
(***************************************************************************)
EXTENDS Integers, Sequences, FiniteSets, TLC

(* ------------------------------ bounds --------------------------------- *)
MaxSubmissions == 1

MaxUsers == 2

MaxTurns == 2 * MaxSubmissions + 1

(* the longest text is_project_related is applied to *)
MaxTextLen == 3

(* how often is_project_related is applied to one text *)
MaxApplications == 2

(* ------------------------------- text ---------------------------------- *)
UPPERCASE ==
  <<"A", "B", "C", "D", "E", "F", "G", "H", "I", "J", "K", "L", "M",
    "N", "O", "P", "Q", "R", "S", "T", "U", "V", "W", "X", "Y", "Z">>

LOWERCASE ==
  <<"a", "b", "c", "d", "e", "f", "g", "h", "i", "j", "k", "l", "m",
    "n", "o", "p", "q", "r", "s", "t", "u", "v", "w", "x", "y", "z">>

WHITESPACE == {" ", "\n", "\t", "\r"}

PRINTABLE ==
  <<" ", "!", "\"", "#", "$", "%", "&", "'", "(", ")", "*", "+", ",", "-", ".", "/",
    "0", "1", "2", "3", "4", "5", "6", "7", "8", "9", ":", ";", "<", "=", ">", "?",
    "@", "A", "B", "C", "D", "E", "F", "G", "H", "I", "J", "K", "L", "M", "N", "O",
    "P", "Q", "R", "S", "T", "U", "V", "W", "X", "Y", "Z", "[", "\\", "]", "^", "_",
    "U+0060", "a", "b", "c", "d", "e", "f", "g", "h", "i", "j", "k", "l", "m", "n", "o",
    "p", "q", "r", "s", "t", "u", "v", "w", "x", "y", "z", "{", "|", "}", "~">>

LowerChar(c) ==
  IF \E i \in 1..Len(UPPERCASE) : UPPERCASE[i] = c
  THEN LOWERCASE[CHOOSE i \in 1..Len(UPPERCASE) : UPPERCASE[i] = c]
  ELSE c

lower(text) == [i \in 1..Len(text) |-> LowerChar(text[i])]

(* the text taken as it was sent *)
strip_identity(text) == text

strip(text) ==
  LET keep == {i \in 1..Len(text) : text[i] \notin WHITESPACE}
  IN  IF keep = {} THEN <<>>
      ELSE SubSeq(text, CHOOSE i \in keep : \A j \in keep : i <= j,
                        CHOOSE i \in keep : \A j \in keep : j <= i)

StartsAt(text, i, word) ==
  /\ i >= 1
  /\ i + Len(word) - 1 <= Len(text)
  /\ text[i] = word[1]
  /\ \A k \in 2..Len(word) : text[i + k - 1] = word[k]

(* the search that finds a word only between spaces or the ends of the text *)
Contains_wholeWord(text, word) ==
  \E i \in 1..Len(text) :
     /\ StartsAt(text, i, word)
     /\ i = 1 \/ text[i - 1] = " "
     /\ i + Len(word) > Len(text) \/ text[i + Len(word)] = " "

Contains(text, word) == \E i \in 1..Len(text) : StartsAt(text, i, word)

RECURSIVE Concat(_)
Concat(parts) ==
  IF Len(parts) = 0 THEN <<>>
  ELSE IF Len(parts) = 1 THEN parts[1]
  ELSE LET mid == Len(parts) \div 2
       IN  Concat(SubSeq(parts, 1, mid)) \o Concat(SubSeq(parts, mid + 1, Len(parts)))

replace(text, old, new) ==
  Concat([i \in 1..Len(text) |-> IF text[i] = old THEN new ELSE <<text[i]>>])

splitFirst(text, sep) ==
  IF \E i \in 1..Len(text) : text[i] = sep
  THEN SubSeq(text, 1, (CHOOSE i \in 1..Len(text) :
                          text[i] = sep /\ \A j \in 1..(i - 1) : text[j] # sep) - 1)
  ELSE text

(* UTF-8: one byte for a code point below 128, its multi-byte sequence above *)
Utf8 ==
  [c \in {PRINTABLE[i] : i \in 1..Len(PRINTABLE)} |->
      <<31 + (CHOOSE i \in 1..Len(PRINTABLE) : PRINTABLE[i] = c)>>]
  @@ ("\n" :> <<10>>) @@ ("\t" :> <<9>>) @@ ("\r" :> <<13>>)
  @@ ("U+1F44B" :> <<240, 159, 145, 139>>)
  @@ ("U+26A0" :> <<226, 154, 160>>)
  @@ ("U+FE0F" :> <<239, 184, 143>>)

encode(text) == Concat([i \in 1..Len(text) |-> Utf8[text[i]]])

(* ------------------------ intent filter -------------------------------- *)
PROJECT_KEYWORDS ==
  <<<<"p", "r", "o", "j", "e", "c", "t">>,
    <<"a", "p", "p">>,
    <<"a", "p", "p", "l", "i", "c", "a", "t", "i", "o", "n">>,
    <<"w", "e", "b", "s", "i", "t", "e">>,
    <<"s", "y", "s", "t", "e", "m">>,
    <<"p", "l", "a", "t", "f", "o", "r", "m">>,
    <<"t", "o", "o", "l">>,
    <<"s", "o", "f", "t", "w", "a", "r", "e">>,
    <<"a", "i">>,
    <<"m", "l">>,
    <<"b", "u", "i", "l", "d">>,
    <<"c", "r", "e", "a", "t", "e">>,
    <<"d", "e", "v", "e", "l", "o", "p">>,
    <<"d", "e", "s", "i", "g", "n">>>>

(* the filter with its result inverted *)
is_project_related_inverted(text) ==
  LET t == lower(text)
  IN  ~ \E k \in 1..Len(PROJECT_KEYWORDS) : Contains(t, PROJECT_KEYWORDS[k])

is_project_related(text) ==
  LET t == lower(text)
  IN  \E k \in 1..Len(PROJECT_KEYWORDS) : Contains(t, PROJECT_KEYWORDS[k])

(* ------------------------ fixed replies -------------------------------- *)
GREETING ==
  <<"H", "i", "!", " ", "U+1F44B", "\n", "\n", "I", " ", "a", "m", " ", "M", "I", "C", "O",
    " ", "P", "r", "o", "m", "p", "t", " ", "G", "e", "n", "e", "r", "a", "t", "o",
    "r", ".", "\n", "G", "i", "v", "e", " ", "m", "e", " ", "y", "o", "u", "r", " ",
    "p", "r", "o", "j", "e", "c", "t", " ", "i", "d", "e", "a", " ", "a", "n", "d",
    " ", "I", " ", "w", "i", "l", "l", " ", "g", "e", "n", "e", "r", "a", "t", "e",
    ":", "\n", "-", " ", "A", " ", "p", "r", "o", "f", "e", "s", "s", "i", "o", "n",
    "a", "l", " ", "A", "I", " ", "p", "r", "o", "m", "p", "t", "\n", "-", " ", "C",
    "l", "e", "a", "r", " ", "p", "r", "o", "j", "e", "c", "t", " ", "r", "e", "q",
    "u", "i", "r", "e", "m", "e", "n", "t", "s">>

REFUSAL ==
  <<"T", "h", "a", "n", "k", " ", "y", "o", "u", " ", "f", "o", "r", " ", "y", "o",
    "u", "r", " ", "m", "e", "s", "s", "a", "g", "e", ".", "\n", "\n", "I", " ", "a",
    "m", " ", "a", " ", "d", "e", "d", "i", "c", "a", "t", "e", "d", " ", "A", "I",
    " ", "P", "r", "o", "m", "p", "t", " ", "G", "e", "n", "e", "r", "a", "t", "o",
    "r", " ", "a", "n", "d", " ", "c", "a", "n", " ", "o", "n", "l", "y", " ", "a",
    "s", "s", "i", "s", "t", " ", "w", "i", "t", "h", " ", "c", "o", "n", "v", "e",
    "r", "t", "i", "n", "g", " ", "p", "r", "o", "j", "e", "c", "t", " ", "i", "d",
    "e", "a", "s", " ", "i", "n", "t", "o", " ", "p", "r", "o", "f", "e", "s", "s",
    "i", "o", "n", "a", "l", " ", "A", "I", " ", "p", "r", "o", "m", "p", "t", "s",
    " ", "a", "n", "d", " ", "s", "t", "r", "u", "c", "t", "u", "r", "e", "d", " ",
    "r", "e", "q", "u", "i", "r", "e", "m", "e", "n", "t", "s", ".", "\n", "\n", "P",
    "l", "e", "a", "s", "e", " ", "s", "h", "a", "r", "e", " ", "a", " ", "v", "a",
    "l", "i", "d", " ", "p", "r", "o", "j", "e", "c", "t", " ", "i", "d", "e", "a",
    " ", "s", "u", "c", "h", " ", "a", "s", " ", "a", "n", " ", "a", "p", "p", ",",
    " ", "w", "e", "b", "s", "i", "t", "e", ",", " ", "A", "I", " ", "t", "o", "o",
    "l", ",", " ", "o", "r", " ", "s", "o", "f", "t", "w", "a", "r", "e", " ", "s",
    "y", "s", "t", "e", "m", ".">>

QUOTA_REPLY ==
  <<"U+26A0", "U+FE0F", " ", "D", "a", "i", "l", "y", " ", "A", "P", "I", " ", "q", "u", "o",
    "t", "a", " ", "r", "e", "a", "c", "h", "e", "d", ".", " ", "P", "l", "e", "a",
    "s", "e", " ", "t", "r", "y", " ", "a", "g", "a", "i", "n", " ", "t", "o", "m",
    "o", "r", "r", "o", "w", " ", "o", "r", " ", "u", "p", "g", "r", "a", "d", "e",
    " ", "y", "o", "u", "r", " ", "p", "l", "a", "n", ".">>

ERROR_PREFIX ==
  <<"E", "r", "r", "o", "r", " ", "g", "e", "n", "e", "r", "a", "t", "i", "n", "g",
    " ", "r", "e", "s", "p", "o", "n", "s", "e", ":", " ">>

Turn(role, text) == [role |-> role, text |-> text]

(* -------------------- AI completion client outcomes -------------------- *)
RESOURCE_EXHAUSTED ==
  <<"R", "E", "S", "O", "U", "R", "C", "E", "_", "E", "X", "H", "A", "U", "S", "T",
    "E", "D">>

INVALID_ARGUMENT ==
  <<"I", "N", "V", "A", "L", "I", "D", "_", "A", "R", "G", "U", "M", "E", "N", "T">>

PROMPT_X ==
  <<"P", "R", "O", "M", "P", "T", "_", "X">>

TimeoutText ==
  <<"R", "e", "a", "d", " ", "t", "i", "m", "e", "d", " ", "o", "u", "t", ".", " ",
    "(", "r", "e", "a", "d", " ", "t", "i", "m", "e", "o", "u", "t", "=", "2", "0",
    ")">>

KeyErrorContent ==
  <<"'", "c", "o", "n", "t", "e", "n", "t", "'">>

ReprEmptyCandidates ==
  <<"{", "'", "c", "a", "n", "d", "i", "d", "a", "t", "e", "s", "'", ":", " ", "[",
    "]", "}">>

ReprErrorOpen ==
  <<"{", "'", "e", "r", "r", "o", "r", "'", ":", " ", "{", "'", "s", "t", "a", "t",
    "u", "s", "'", ":", " ", "'">>

ReprErrorClose ==
  <<"'", "}", "}">>

BR ==
  <<"<", "b", "r", "/", ">">>

Candidate(t) == [content |-> [parts |-> <<[text |-> t]>>]]

Replies == {PROMPT_X}

(* What requests.post(...).json() can do: raise (a timeout, a connection error, *)
(* a body that is not JSON), or return a parsed body.                           *)
AiOutcomes ==
  {[kind |-> "json", res |-> [candidates |-> <<Candidate(t)>>], exc |-> <<>>] : t \in Replies}
  \cup {[kind |-> "json", res |-> [candidates |-> <<<<>>>>], exc |-> <<>>],
        [kind |-> "json", res |-> [error |-> [status |-> RESOURCE_EXHAUSTED]], exc |-> <<>>],
        [kind |-> "json", res |-> [error |-> [status |-> INVALID_ARGUMENT]], exc |-> <<>>],
        [kind |-> "raise", res |-> <<>>, exc |-> TimeoutText]}

NoOutcome == [kind |-> "none", res |-> <<>>, exc |-> <<>>]

(* str(res) of a parsed body without usable candidates: with an error object, or none *)
ReprRes(res) ==
  IF "error" \in DOMAIN res
  THEN ReprErrorOpen \o res.error.status \o ReprErrorClose
  ELSE ReprEmptyCandidates

(* the try/except block without the quota branch *)
ReplyFor_noQuota(outcome) ==
  IF outcome.kind = "raise" THEN ERROR_PREFIX \o outcome.exc
  ELSE LET res == outcome.res IN
       IF "candidates" \in DOMAIN res /\ res.candidates # <<>>
       THEN IF "content" \in DOMAIN res.candidates[1]
            THEN res.candidates[1].content.parts[1].text
            ELSE ERROR_PREFIX \o KeyErrorContent
       ELSE ERROR_PREFIX \o ReprRes(res)

(* The try/except block of index(): the reply text for one client outcome. *)
ReplyFor(outcome) ==
  IF outcome.kind = "raise" THEN ERROR_PREFIX \o outcome.exc
  ELSE LET res == outcome.res IN
       IF "candidates" \in DOMAIN res /\ res.candidates # <<>>
       THEN IF "content" \in DOMAIN res.candidates[1]
            THEN res.candidates[1].content.parts[1].text
            ELSE ERROR_PREFIX \o KeyErrorContent
       ELSE IF "error" \in DOMAIN res /\ res.error.status = RESOURCE_EXHAUSTED
            THEN QUOTA_REPLY
            ELSE ERROR_PREFIX \o ReprRes(res)

(* --------------------------- PDF rendering ----------------------------- *)
IsLetter(c) ==
  \E i \in 1..Len(LOWERCASE) : LOWERCASE[i] = c \/ UPPERCASE[i] = c

(* Paragraph() parses its argument as markup: a tag that is opened and never *)
(* closed makes the parser raise ValueError.                                 *)
ParagraphRaises(markup) ==
  \E i \in 1..(Len(markup) - 1) :
     /\ markup[i] = "<"
     /\ IsLetter(markup[i + 1])
     /\ ~StartsAt(markup, i, BR)
     /\ ~ \E j \in (i + 1)..(Len(markup) - 1) : markup[j] = "<" /\ markup[j + 1] = "/"

(* The text flowed into the document, for markup without tags: <br/> breaks the line. *)
ParagraphText(markup) ==
  LET inBreak(i) == \E k \in 1..(Len(BR) - 1) : StartsAt(markup, i - k, BR)
  IN  Concat([i \in 1..Len(markup) |->
                IF markup[i] \notin {"<", "b", "r", "/", ">"} THEN <<markup[i]>>
                ELSE IF StartsAt(markup, i, BR) THEN <<"\n">>
                ELSE IF inBreak(i) THEN <<>> ELSE <<markup[i]>>])

(* ------------------------------ inputs --------------------------------- *)
EmailA == <<"a", "@", "x">>

EmailG == <<"g", "@", "x">>

Form(username, email, password) ==
  [username |-> username, email |-> email, password |-> password]

(* Submitted signup forms: a complete one, and one with blank email and password. *)
SignupForms ==
  {Form(<<"a">>, EmailA, <<"p">>),
   Form(<<"a">>, <<" ">>, <<" ">>)}

LoginForms == {Form(<<>>, EmailA, <<"p">>), Form(<<>>, EmailA, <<" ">>)}

NoForm == Form(<<>>, <<>>, <<>>)

Queries == {<<" ">>, <<" ", "<", "b", ">", " ">>, <<"A", "I">>}

OAuthStates == {"s1", "s2"}

ReturnedStates == OAuthStates

Userinfos ==
  {[email_verified |-> TRUE, email |-> EmailG, name |-> <<>>],
   [email_verified |-> TRUE, email |-> EmailA, name |-> <<"G">>],
   [email_verified |-> FALSE, email |-> EmailG, name |-> <<>>]}

NoUserinfo == [email_verified |-> FALSE, email |-> <<>>, name |-> <<>>]

(* What one callback request meets: the discovery document cannot be fetched; *)
(* the token exchange refuses the code; or the provider answers with userinfo. *)
CallbackInputs ==
  {[cfg |-> "fail", state |-> "", code |-> "", userinfo |-> NoUserinfo]}
  \cup {[cfg |-> "ok", state |-> s, code |-> "bad", userinfo |-> NoUserinfo] : s \in {"s1"}}
  \cup {[cfg |-> "ok", state |-> s, code |-> "good", userinfo |-> i] :
          s \in ReturnedStates, i \in Userinfos}

LoginInputs ==
  {[cfg |-> "fail", state |-> ""]} \cup {[cfg |-> "ok", state |-> s] : s \in OAuthStates}

Indexes == (0 - 1)..MaxTurns

(* A submitted query and, when the query is one the client is called for, *)
(* what the call meets.                                                   *)
Submissions ==
  UNION {{[query |-> q, outcome |-> o] :
            o \in IF is_project_related(strip(q)) THEN AiOutcomes ELSE {NoOutcome}} :
         q \in Queries}

(* ------------------------------- state --------------------------------- *)
VARIABLES
  session,    \* flask.session: a dict with keys among user_id, username, oauth_state, chat
  users,      \* the users table, in insertion order
  req,        \* the request handled last
  pre,        \* flask.session as that request found it
  response,   \* the response to that request
  calls,      \* calls to the AI completion endpoint made by that request
  created,    \* rows added to the users table by that request
  cleared,    \* a logout has cleared the session and no transcript was created since
  subject,    \* the text is_project_related is applied to
  verdict,    \* what its applications to that argument returned, in order
  inflight    \* the requests of one browser that are being handled at the same time

vars == <<session, users, req, pre, response, calls, created, cleared, subject, verdict, inflight>>

EmptySession == <<>>

Has(s, k) == k \in DOMAIN s

Set(s, k, v) == (k :> v) @@ s

None == <<>>

User(id, username, email, password) ==
  [id |-> id, username |-> username, email |-> email, password |-> password]

generate_password_hash(password) == <<"pbkdf2", password>>

check_password_hash(pwhash, password) == pwhash = generate_password_hash(password)

(* Query.first() over the rows numbered in matching: the first of them, 0 when none *)
First(matching) ==
  IF matching = {} THEN 0 ELSE CHOOSE i \in matching : \A j \in matching : i <= j

(* ------------------------------ responses ------------------------------ *)
(* A response: redirect(url_for(location)), render_template(template, ...),    *)
(* abort(404), an uncaught exception (500), or send_file(...).  index.html is  *)
(* rendered with chat = session.get("chat", []), the transcript the request    *)
(* leaves in the session.                                                      *)
Resp(status, location, template, flash, body, pdf, mimetype, exc) ==
  [status |-> status, location |-> location, template |-> template, flash |-> flash,
   body |-> body, pdf |-> pdf, mimetype |-> mimetype, exc |-> exc]

NoResponse == Resp(0, "", "", "", <<>>, <<>>, "", "")

Redirect(location, flash) == Resp(302, location, "", flash, <<>>, <<>>, "", "")

Render(template, flash) == Resp(200, "", template, flash, <<>>, <<>>, "", "")

NotFound == Resp(404, "", "", "", <<>>, <<>>, "", "")

ServerError(exc) == Resp(500, "", "", "", <<>>, <<>>, "", exc)

SendTxt(body) == Resp(200, "", "", "", body, <<>>, "text/plain", "")

SendPdf(pdf) == Resp(200, "", "", "", <<>>, pdf, "application/pdf", "")

NoRequest == [route |-> "", method |-> "", args |-> <<>>]

Request(route, method, args) == [route |-> route, method |-> method, args |-> args]

Init ==
  /\ session = EmptySession
  /\ users = <<>>
  /\ req = NoRequest
  /\ pre = EmptySession
  /\ response = NoResponse
  /\ calls = 0
  /\ created = 0
  /\ cleared = FALSE
  /\ subject = <<>>
  /\ verdict = <<>>
  /\ inflight = <<>>

(* One handled request: the session and table it leaves, and its response. *)
Handled(r, s, u, resp, n) ==
  /\ req' = r
  /\ pre' = session
  /\ session' = s
  /\ users' = u
  /\ response' = resp
  /\ calls' = n
  /\ created' = Len(u) - Len(users)
  /\ cleared' = IF r.route = "logout" THEN TRUE
                ELSE IF Has(s, "chat") /\ ~Has(session, "chat") THEN FALSE
                ELSE cleared
  /\ UNCHANGED <<subject, verdict, inflight>>

(* the session started on top of what the session held *)
StartSession_keepsState(user) ==
  Set(Set(session, "user_id", user.id), "username", user.username)

StartSession(user) ==
  Set(Set(EmptySession, "user_id", user.id), "username", user.username)

(* ------------------------------ auth routes ---------------------------- *)
(* signup that logs the new user in *)
signup_startsSession(method, form) ==
  LET r == Request("signup", method, form)
      username == strip(form.username)
      email == strip(form.email)
      password == strip(form.password)
      taken == {i \in 1..Len(users) :
                  users[i].username = username \/ users[i].email = email}
      row == User(Len(users) + 1, username, email, generate_password_hash(password))
  IN  IF Has(session, "user_id")
      THEN Handled(r, session, users, Redirect("index", ""), 0)
      ELSE IF method = "POST"
      THEN IF First(taken) # 0
           THEN Handled(r, session, users,
                        Render("signup.html", "Username or email already exists"), 0)
           ELSE /\ Len(users) < MaxUsers
                /\ Handled(r, StartSession(row), Append(users, row), Redirect("index", ""), 0)
      ELSE Handled(r, session, users, Render("signup.html", ""), 0)

signup(method, form) ==
  LET r == Request("signup", method, form)
      username == strip(form.username)
      email == strip(form.email)
      password == strip(form.password)
      taken == {i \in 1..Len(users) :
                  users[i].username = username \/ users[i].email = email}
  IN  IF Has(session, "user_id")
      THEN Handled(r, session, users, Redirect("index", ""), 0)
      ELSE IF method = "POST"
      THEN IF First(taken) # 0
           THEN Handled(r, session, users,
                        Render("signup.html", "Username or email already exists"), 0)
           ELSE /\ Len(users) < MaxUsers
                /\ Handled(r, session,
                           Append(users, User(Len(users) + 1, username, email,
                                              generate_password_hash(password))),
                           Redirect("login", "Signup successful! Please login."), 0)
      ELSE Handled(r, session, users, Render("signup.html", ""), 0)

(* login that tells an unknown email from a wrong password *)
login_enumerates(method, form) ==
  LET r == Request("login", method, form)
      email == strip(form.email)
      password == strip(form.password)
      byEmail == {i \in 1..Len(users) : users[i].email = email}
      u == First(byEmail)
  IN  IF Has(session, "user_id")
      THEN Handled(r, session, users, Redirect("index", ""), 0)
      ELSE IF method = "POST"
      THEN IF u = 0
           THEN Handled(r, session, users, Render("login.html", "No account for this email"), 0)
           ELSE IF /\ users[u].password # None
                   /\ check_password_hash(users[u].password, password)
           THEN Handled(r, StartSession(users[u]), users, Redirect("index", ""), 0)
           ELSE Handled(r, session, users,
                        Render("login.html", "Invalid email or password"), 0)
      ELSE Handled(r, session, users, Render("login.html", ""), 0)

login(method, form) ==
  LET r == Request("login", method, form)
      email == strip(form.email)
      password == strip(form.password)
      byEmail == {i \in 1..Len(users) : users[i].email = email}
      u == First(byEmail)
  IN  IF Has(session, "user_id")
      THEN Handled(r, session, users, Redirect("index", ""), 0)
      ELSE IF method = "POST"
      THEN IF /\ u # 0
              /\ users[u].password # None
              /\ check_password_hash(users[u].password, password)
           THEN Handled(r, StartSession(users[u]), users, Redirect("index", ""), 0)
           ELSE Handled(r, session, users,
                        Render("login.html", "Invalid email or password"), 0)
      ELSE Handled(r, session, users, Render("login.html", ""), 0)

(* logout that drops the identity and keeps the rest of the session *)
logout_keepsChat ==
  Handled(Request("logout", "GET", <<>>),
          [k \in DOMAIN session \ {"user_id", "username"} |-> session[k]],
          users, Redirect("login", ""), 0)

logout ==
  Handled(Request("logout", "GET", <<>>), EmptySession, users, Redirect("login", ""), 0)

(* ------------------------------ Google OAuth --------------------------- *)
google_login(in) ==
  LET cfg == in.cfg
      state == in.state
      r == Request("google_login", "GET", [cfg |-> cfg]) IN
  IF Has(session, "user_id")
  THEN Handled(r, session, users, Redirect("index", ""), 0)
  ELSE IF cfg = "fail"
  THEN Handled(r, session, users, ServerError("ConnectionError"), 0)
  ELSE Handled(r, Set(EmptySession, "oauth_state", state), users,
               Redirect("authorization_url", ""), 0)

(* OAuth2Session.fetch_token(authorization_response=request.url): the state of  *)
(* the callback URL is compared with the state the OAuth2Session was built      *)
(* with only when that state is not None; then the code is exchanged.           *)
fetch_token(expected, returned, code) ==
  IF expected # "" /\ returned # expected THEN "MismatchingStateError"
  ELSE IF code # "good" THEN "InvalidGrantError"
  ELSE "token"

(* the callback that adds a record for every login *)
google_callback_alwaysCreates(in) ==
  LET cfg == in.cfg
      returned == in.state
      code == in.code
      userinfo == in.userinfo
      r == Request("google_callback", "GET", in)
      expected == IF Has(session, "oauth_state") THEN session.oauth_state ELSE ""
      token == fetch_token(expected, returned, code)
      email == userinfo.email
      username == IF userinfo.name # <<>> THEN userinfo.name ELSE splitFirst(email, "@")
      created_user == User(Len(users) + 1, username, email, None)
  IN  IF cfg = "fail"
      THEN Handled(r, session, users, ServerError("ConnectionError"), 0)
      ELSE IF token # "token"
      THEN Handled(r, session, users, ServerError(token), 0)
      ELSE IF ~userinfo.email_verified
      THEN Handled(r, session, users, Redirect("login", "Google email not verified"), 0)
      ELSE /\ Len(users) < MaxUsers
           /\ Handled(r, StartSession(created_user), Append(users, created_user),
                      Redirect("index", ""), 0)

google_callback(in) ==
  LET cfg == in.cfg
      returned == in.state
      code == in.code
      userinfo == in.userinfo
      r == Request("google_callback", "GET", in)
      expected == IF Has(session, "oauth_state") THEN session.oauth_state ELSE ""
      token == fetch_token(expected, returned, code)
      email == userinfo.email
      username == IF userinfo.name # <<>> THEN userinfo.name ELSE splitFirst(email, "@")
      byEmail == {i \in 1..Len(users) : users[i].email = email}
      u == First(byEmail)
      created_user == User(Len(users) + 1, username, email, None)
  IN  IF cfg = "fail"
      THEN Handled(r, session, users, ServerError("ConnectionError"), 0)
      ELSE IF token # "token"
      THEN Handled(r, session, users, ServerError(token), 0)
      ELSE IF ~userinfo.email_verified
      THEN Handled(r, session, users, Redirect("login", "Google email not verified"), 0)
      ELSE IF u # 0
      THEN Handled(r, StartSession(users[u]), users, Redirect("index", ""), 0)
      ELSE /\ Len(users) < MaxUsers
           /\ Handled(r, StartSession(created_user), Append(users, created_user),
                      Redirect("index", ""), 0)

(* --------------------------- prompt generator -------------------------- *)
(* the handler that leaves an out-of-scope message without its reply *)
index_unanswered(method, query0, outcome) ==
  LET query == strip(query0)
      used == IF /\ Has(session, "user_id") /\ method = "POST" /\ query # <<>>
                 /\ Has(session, "chat") /\ is_project_related(query)
              THEN outcome ELSE NoOutcome
      r == Request("index", method, [query |-> query0, outcome |-> used])
      chat == IF Has(session, "chat") THEN session.chat ELSE <<>>
      asked == Append(chat, Turn("user", query))
      replied == Append(asked, Turn("assistant", ReplyFor(outcome)))
      greeted == <<Turn("assistant", GREETING)>>
  IN  IF ~Has(session, "user_id")
      THEN Handled(r, session, users, Redirect("login", ""), 0)
      ELSE IF method = "GET"
      THEN Handled(r, Set(session, "chat", greeted), users,
                   Render("index.html", ""), 0)
      ELSE IF query = <<>>
      THEN Handled(r, session, users, Render("index.html", ""), 0)
      ELSE IF ~Has(session, "chat")
      THEN Handled(r, session, users, ServerError("KeyError"), 0)
      ELSE /\ Len(chat) + 2 <= MaxTurns
           /\ IF ~is_project_related(query)
              THEN Handled(r, Set(session, "chat", asked), users,
                           Render("index.html", ""), 0)
              ELSE Handled(r, Set(session, "chat", replied), users,
                           Render("index.html", ""), 1)

index(method, query0, outcome) ==
  LET query == strip(query0)
      used == IF /\ Has(session, "user_id") /\ method = "POST" /\ query # <<>>
                 /\ Has(session, "chat") /\ is_project_related(query)
              THEN outcome ELSE NoOutcome
      r == Request("index", method, [query |-> query0, outcome |-> used])
      chat == IF Has(session, "chat") THEN session.chat ELSE <<>>
      asked == Append(chat, Turn("user", query))
      refused == Append(asked, Turn("assistant", REFUSAL))
      replied == Append(asked, Turn("assistant", ReplyFor(outcome)))
      greeted == <<Turn("assistant", GREETING)>>
  IN  IF ~Has(session, "user_id")
      THEN Handled(r, session, users, Redirect("login", ""), 0)
      ELSE IF method = "GET"
      THEN Handled(r, Set(session, "chat", greeted), users,
                   Render("index.html", ""), 0)
      ELSE IF query = <<>>
      THEN Handled(r, session, users, Render("index.html", ""), 0)
      ELSE IF ~Has(session, "chat")
      THEN Handled(r, session, users, ServerError("KeyError"), 0)
      ELSE /\ Len(chat) + 2 <= MaxTurns
           /\ IF ~is_project_related(query)
              THEN Handled(r, Set(session, "chat", refused), users,
                           Render("index.html", ""), 0)
              ELSE Handled(r, Set(session, "chat", replied), users,
                           Render("index.html", ""), 1)

(* ------------------------------ downloads ------------------------------ *)
(* The <int:idx> converter of the route matches unsigned integers only. *)
RouteMatches(idx) == idx >= 0

(* the download with the index taken one too low *)
download_txt_by_index_offByOne(idx) ==
  LET r == Request("download_txt", "GET", [idx |-> idx])
      chat == IF Has(session, "chat") THEN session.chat ELSE <<>>
  IN  IF ~RouteMatches(idx) \/ chat = <<>> \/ idx < 1 \/ idx > Len(chat)
      THEN Handled(r, session, users, NotFound, 0)
      ELSE Handled(r, session, users, SendTxt(encode(chat[idx].text)), 0)

download_txt_by_index(idx) ==
  LET r == Request("download_txt", "GET", [idx |-> idx])
      chat == IF Has(session, "chat") THEN session.chat ELSE <<>>
  IN  IF ~RouteMatches(idx) \/ chat = <<>> \/ idx < 0 \/ idx >= Len(chat)
      THEN Handled(r, session, users, NotFound, 0)
      ELSE Handled(r, session, users, SendTxt(encode(chat[idx + 1].text)), 0)

download_pdf_by_index(idx) ==
  LET r == Request("download_pdf", "GET", [idx |-> idx])
      chat == IF Has(session, "chat") THEN session.chat ELSE <<>>
      markup == replace(chat[idx + 1].text, "\n", BR)
  IN  IF ~RouteMatches(idx) \/ chat = <<>> \/ idx < 0 \/ idx >= Len(chat)
      THEN Handled(r, session, users, NotFound, 0)
      ELSE IF ParagraphRaises(markup)
      THEN Handled(r, session, users, ServerError("ValueError"), 0)
      ELSE Handled(r, session, users, SendPdf(ParagraphText(markup)), 0)

(* --------------------------- specification ----------------------------- *)
Next ==
  \/ \E f \in SignupForms : signup("POST", f)
  \/ signup("GET", NoForm)
  \/ \E f \in LoginForms : login("POST", f)
  \/ login("GET", NoForm)
  \/ logout
  \/ \E in \in LoginInputs : google_login(in)
  \/ \E in \in CallbackInputs : google_callback(in)
  \/ \E sub \in Submissions : index("POST", sub.query, sub.outcome)
  \/ index("GET", <<>>, NoOutcome)
  \/ \E i \in Indexes : download_txt_by_index(i)
  \/ \E i \in Indexes : download_pdf_by_index(i)

Spec == Init /\ [][Next]_vars

(* ------------------- is_project_related, applied alone ------------------ *)
Alphabet == {"a", "A", "i", "I", "m", "L", " "}

RECURSIVE TextsOfLen(_)
TextsOfLen(n) ==
  IF n = 0 THEN {<<>>}
  ELSE {Append(t, c) : t \in TextsOfLen(n - 1), c \in Alphabet}

Texts == UNION {TextsOfLen(n) : n \in 0..MaxTextLen}

InitKeywords ==
  /\ subject \in Texts
  /\ verdict = <<>>
  /\ session = EmptySession
  /\ users = <<>>
  /\ req = NoRequest
  /\ pre = EmptySession
  /\ response = NoResponse
  /\ calls = 0
  /\ created = 0
  /\ cleared = FALSE
  /\ inflight = <<>>

(* one call of is_project_related(subject) *)
Classify ==
  /\ Len(verdict) < MaxApplications
  /\ verdict' = Append(verdict, is_project_related(subject))
  /\ UNCHANGED <<subject, session, users, req, pre, response, calls, created, cleared, inflight>>

NextKeywords == Classify

SpecKeywords == InitKeywords /\ [][NextKeywords]_vars

(* --------------- two POST / of one browser at the same time ------------- *)
(* The session is Flask's default one, a signed cookie: a request carries the  *)
(* cookie the browser holds when it is sent, the handler works on the session  *)
(* decoded from it, and the response carries the session back as a new cookie, *)
(* which the browser stores when the response arrives, if the handler has       *)
(* modified the session.                                                        *)
Requests == {1, 2}

Idle == [pc |-> "idle", sub |-> [query |-> <<>>, outcome |-> NoOutcome],
         opened |-> EmptySession, saved |-> EmptySession]

(* The session the POST branch of index() leaves, for the session it opened. *)
index_post(s, query0, outcome) ==
  LET query == strip(query0)
      chat == IF Has(s, "chat") THEN s.chat ELSE <<>>
      asked == Append(chat, Turn("user", query))
      reply == IF ~is_project_related(query) THEN REFUSAL ELSE ReplyFor(outcome)
  IN  IF ~Has(s, "user_id") \/ query = <<>> \/ ~Has(s, "chat")
      THEN s
      ELSE Set(s, "chat", Append(asked, Turn("assistant", reply)))

Account == User(1, <<"a">>, EmailA, generate_password_hash(<<"p">>))

(* a browser logged in as the one user, after its GET / *)
InitConcurrent ==
  /\ session = Set(StartSession(Account), "chat", <<Turn("assistant", GREETING)>>)
  /\ users = <<Account>>
  /\ inflight = [w \in Requests |-> Idle]
  /\ req = NoRequest
  /\ pre = EmptySession
  /\ response = NoResponse
  /\ calls = 0
  /\ created = 0
  /\ cleared = FALSE
  /\ subject = <<>>
  /\ verdict = <<>>

(* the browser sends a POST / with the cookie it holds *)
send_request(w, sub) ==
  /\ inflight[w].pc = "idle"
  /\ inflight' = [inflight EXCEPT ![w] = [pc |-> "handling", sub |-> sub,
                                          opened |-> session, saved |-> session]]
  /\ UNCHANGED <<session, users, req, pre, response, calls, created, cleared,
                 subject, verdict>>

(* index() handles the request on the session it opened *)
handle_request(w) ==
  /\ inflight[w].pc = "handling"
  /\ inflight' = [inflight EXCEPT
                    ![w].pc = "answered",
                    ![w].saved = index_post(inflight[w].opened, inflight[w].sub.query,
                                            inflight[w].sub.outcome)]
  /\ UNCHANGED <<session, users, req, pre, response, calls, created, cleared,
                 subject, verdict>>

(* the response arrives: a modified session replaces the browser's cookie *)
receive_response(w) ==
  /\ inflight[w].pc = "answered"
  /\ session' = IF inflight[w].saved # inflight[w].opened
                THEN inflight[w].saved ELSE session
  /\ inflight' = [inflight EXCEPT ![w].pc = "done"]
  /\ UNCHANGED <<users, req, pre, response, calls, created, cleared, subject, verdict>>

NextConcurrent ==
  \/ \E w \in Requests : \E sub \in Submissions : send_request(w, sub)
  \/ \E w \in Requests : handle_request(w)
  \/ \E w \in Requests : receive_response(w)

SpecConcurrent == InitConcurrent /\ [][NextConcurrent]_vars

(* ------------------------------ properties ----------------------------- *)
Greeted == <<Turn("assistant", GREETING)>>

HasKeyword(text) ==
  \E k \in 1..Len(PROJECT_KEYWORDS) : Contains(lower(text), PROJECT_KEYWORDS[k])

Submitted == req.route = "index" /\ req.method = "POST"

(* a POST / with a non-empty message on an authenticated session holding a transcript *)
SubmittedMessage ==
  /\ Submitted
  /\ Has(pre, "user_id")
  /\ Has(pre, "chat")
  /\ strip(req.args.query) # <<>>

Downloaded == req.route \in {"download_txt", "download_pdf"}

(* C1: an out-of-scope message submitted on an authenticated session that holds a   *)
(* transcript makes no call to the AI completion client and appends exactly two     *)
(* turns: the user turn with the trimmed text, then the fixed refusal.              *)
Thm_C1 ==
  (SubmittedMessage /\ ~HasKeyword(strip(req.args.query)))
     => /\ calls = 0
        /\ Has(session, "chat")
        /\ session.chat = pre.chat \o <<Turn("user", strip(req.args.query)),
                                        Turn("assistant", REFUSAL)>>

Wit_C1 ==
  /\ SubmittedMessage
  /\ req.args.query = <<" ", "<", "b", ">", " ">>
  /\ Len(session.chat) = Len(pre.chat) + 2

Success(t) == [kind |-> "json", res |-> [candidates |-> <<Candidate(t)>>], exc |-> <<>>]

QuotaExhausted ==
  [kind |-> "json", res |-> [error |-> [status |-> RESOURCE_EXHAUSTED]], exc |-> <<>>]

(* C2: an in-scope message appends exactly two turns, user then assistant, whatever *)
(* the client call does; the call is made once; the request is answered with the    *)
(* rendered page; the assistant turn is the generated text on success, the quota    *)
(* text on quota exhaustion, and a generic error text (not the quota text)          *)
(* otherwise.                                                                       *)
Thm_C2 ==
  (SubmittedMessage /\ HasKeyword(strip(req.args.query)))
     => /\ calls = 1
        /\ response = Render("index.html", "")
        /\ Has(session, "chat")
        /\ Len(session.chat) = Len(pre.chat) + 2
        /\ SubSeq(session.chat, 1, Len(pre.chat)) = pre.chat
        /\ session.chat[Len(pre.chat) + 1] = Turn("user", strip(req.args.query))
        /\ session.chat[Len(pre.chat) + 2].role = "assistant"
        /\ LET text == session.chat[Len(pre.chat) + 2].text
               o == req.args.outcome
           IN  IF \E t \in Replies : o = Success(t)
               THEN o = Success(text)
               ELSE IF o = QuotaExhausted
               THEN text = QUOTA_REPLY
               ELSE StartsAt(text, 1, ERROR_PREFIX) /\ text # QUOTA_REPLY

Wit_C2 ==
  /\ SubmittedMessage
  /\ req.args.outcome = QuotaExhausted
  /\ session.chat[Len(session.chat)].text = QUOTA_REPLY

SignedUp == req.route = "signup" /\ req.method = "POST" /\ created = 1

(* C3 as stated: a successful signup establishes the session and redirects to /. *)
Orig_C3 ==
  SignedUp => /\ response.status = 302
              /\ response.location = "index"
              /\ Has(session, "user_id")

(* C3, amended: a successful signup establishes no session: it redirects to /login *)
(* and leaves the session as it was, without user_id; a GET / that follows is      *)
(* redirected to /login; GET / on a session that has logged in renders the         *)
(* transcript with the greeting turn only.                                         *)
Thm_C3 ==
  [][/\ SignedUp' => /\ response' = Redirect("login", "Signup successful! Please login.")
                     /\ session' = session
                     /\ ~Has(session', "user_id")
     /\ (SignedUp /\ req'.route = "index") => response' = Redirect("login", "")
     /\ (req'.route = "index" /\ req'.method = "GET" /\ Has(session, "user_id"))
           => /\ response' = Render("index.html", "")
              /\ session'.chat = Greeted]_vars

Wit_C3 == SignedUp /\ ~Has(session, "user_id") /\ response.location = "login"

CallbackUnmatched ==
  /\ req.route = "google_callback"
  /\ \/ ~Has(pre, "oauth_state")
     \/ req.args.state # pre.oauth_state

(* C4: a callback on a session without oauth_state, or echoing another state than *)
(* the session's, creates no user and does not authenticate the session.           *)
Orig_C4 ==
  CallbackUnmatched
     => /\ created = 0
        /\ response.location # "index"
        /\ Has(session, "user_id") => Has(pre, "user_id")

(* C5: a request without user_id to / or to a download is redirected to /login, *)
(* creates no transcript and makes no AI call.                                   *)
Orig_C5 ==
  (~Has(pre, "user_id") /\ (req.route = "index" \/ Downloaded))
     => /\ response = Redirect("login", "")
        /\ ~Has(session, "chat")
        /\ calls = 0

(* the transcript after one successful in-scope submission on a greeting-only one *)
OneAnswered ==
  /\ Has(session, "chat")
  /\ Len(session.chat) = 3
  /\ session.chat[1] = Turn("assistant", GREETING)
  /\ session.chat[2].role = "user"
  /\ HasKeyword(session.chat[2].text)
  /\ session.chat[3] = Turn("assistant", PROMPT_X)

BytesOfPromptX == <<80, 82, 79, 77, 80, 84, 95, 88>>

(* C6 as stated: after one answered submission GET /download/1/txt returns the *)
(* generated text.                                                              *)
Orig_C6 ==
  (OneAnswered /\ req.route = "download_txt" /\ req.args.idx = 1)
     => response.body = BytesOfPromptX

(* C6, amended: after one answered submission on a greeting-only transcript, the   *)
(* generated text R is turn 2: GET /download/2/txt returns the UTF-8 bytes of R as *)
(* text/plain, and GET /download/1/txt returns those of the submitted message.     *)
Thm_C6 ==
  (OneAnswered /\ req.route = "download_txt")
     => /\ req.args.idx = 2 => /\ response.status = 200
                               /\ response.mimetype = "text/plain"
                               /\ response.body = BytesOfPromptX
        /\ req.args.idx = 1 => /\ response.status = 200
                               /\ response.body = encode(session.chat[2].text)
                               /\ response.body # BytesOfPromptX

Wit_C6 ==
  /\ OneAnswered
  /\ req.route = "download_txt"
  /\ req.args.idx = 2
  /\ response.body = BytesOfPromptX

(* C7: on a populated transcript a download of index i is not found when i < 0 or *)
(* i >= len, returns the stored text of turn i otherwise, and leaves the session   *)
(* as it was.                                                                      *)
Orig_C7 ==
  (Downloaded /\ Has(pre, "chat") /\ pre.chat # <<>>)
     => /\ session = pre
        /\ IF req.args.idx < 0 \/ req.args.idx >= Len(pre.chat)
           THEN response = NotFound
           ELSE /\ response.status = 200
                /\ req.route = "download_txt"
                      => response.body = encode(pre.chat[req.args.idx + 1].text)
                /\ req.route = "download_pdf"
                      => response.pdf = pre.chat[req.args.idx + 1].text

(* C8: logout empties the session and redirects to /login; from then on / without *)
(* a login is redirected to /login, the session holds no transcript until an       *)
(* authenticated GET / creates one, downloads are not found meanwhile, and a       *)
(* transcript that appears in a session holds the greeting turn only.              *)
Thm_C8 ==
  /\ req.route = "logout" => session = EmptySession /\ response = Redirect("login", "")
  /\ cleared => ~Has(session, "chat")
  /\ (cleared /\ Downloaded) => response = NotFound
  /\ (req.route = "index" /\ ~Has(pre, "user_id")) => response = Redirect("login", "")
  /\ (Has(session, "chat") /\ ~Has(pre, "chat")) => session.chat = Greeted

Wit_C8 ==
  /\ cleared
  /\ Has(session, "user_id")
  /\ req.route = "download_txt"
  /\ req.args.idx = 1
  /\ response = NotFound

LoginPosted == req.route = "login" /\ req.method = "POST" /\ ~Has(pre, "user_id")

RowsFor(email) == {i \in 1..Len(users) : users[i].email = email}

EmailUnknown == RowsFor(strip(req.args.email)) = {}

NoPassword == \E i \in RowsFor(strip(req.args.email)) : users[i].password = None

WrongPassword ==
  \E i \in RowsFor(strip(req.args.email)) :
     /\ users[i].password # None
     /\ users[i].password # generate_password_hash(strip(req.args.password))

(* C9: a password login for an unknown email, for an account without password, or *)
(* with a wrong password gets one and the same response, and the session stays as  *)
(* it was, without user_id.                                                        *)
Thm_C9 ==
  (LoginPosted /\ (EmailUnknown \/ NoPassword \/ WrongPassword))
     => /\ response = Render("login.html", "Invalid email or password")
        /\ session = pre
        /\ ~Has(session, "user_id")

Wit_C9 == LoginPosted /\ NoPassword /\ response.flash = "Invalid email or password"

(* C10: a signup with a username, email or password that is empty after trimming *)
(* is rejected and creates no user.                                               *)
Orig_C10 ==
  (/\ req.route = "signup"
   /\ req.method = "POST"
   /\ \/ strip(req.args.username) = <<>>
      \/ strip(req.args.email) = <<>>
      \/ strip(req.args.password) = <<>>)
     => /\ created = 0
        /\ response # Redirect("login", "Signup successful! Please login.")

SignupPosted == req.route = "signup" /\ req.method = "POST" /\ ~Has(pre, "user_id")

(* the users table as the request handled last found it *)
UsersBefore == SubSeq(users, 1, Len(users) - created)

RowsBefore(email) == {i \in 1..Len(UsersBefore) : UsersBefore[i].email = email}

CallbackCompleted == req.route = "google_callback" /\ response = Redirect("index", "")

(* C11: no two User records share an email; a signup whose email is already in the *)
(* table is answered with the duplicate message and adds no record; an OAuth login  *)
(* binds the session to the record that has the email and adds one record, with     *)
(* that email, only when the table has none.                                        *)
Thm_C11 ==
  /\ \A i, j \in 1..Len(users) : users[i].email = users[j].email => i = j
  /\ (SignupPosted /\ RowsBefore(strip(req.args.email)) # {})
        => /\ created = 0
           /\ response = Render("signup.html", "Username or email already exists")
  /\ CallbackCompleted
        => LET rows == RowsBefore(req.args.userinfo.email) IN
           IF rows # {}
           THEN /\ created = 0
                /\ \E i \in rows : session.user_id = users[i].id
           ELSE /\ created = 1
                /\ users[Len(users)].email = req.args.userinfo.email
                /\ session.user_id = users[Len(users)].id

Wit_C11 ==
  /\ SignupPosted
  /\ created = 0
  /\ \E i \in RowsBefore(strip(req.args.email)) :
        users[i].username # strip(req.args.username)

(* C12: is_project_related(text) is true exactly when some configured keyword occurs *)
(* in the text at some offset, letters compared without regard to case and whatever  *)
(* stands before and after the occurrence; it is false when no keyword occurs; and    *)
(* every application to the same text returns the same value.                         *)
Thm_C12 ==
  \A n \in 1..Len(verdict) :
     verdict[n] =
        \E k \in 1..Len(PROJECT_KEYWORDS) : \E p \in 0..Len(subject) :
           /\ p + Len(PROJECT_KEYWORDS[k]) <= Len(subject)
           /\ \A j \in 1..Len(PROJECT_KEYWORDS[k]) :
                 LowerChar(subject[p + j]) = PROJECT_KEYWORDS[k][j]

Wit_C12 == subject = <<"m", "A", "I">> /\ verdict = <<TRUE, TRUE>>

(* C13: a request other than logout and the OAuth callback, handled on an           *)
(* authenticated session that holds a transcript, leaves a transcript that has the  *)
(* turns it found as a prefix.                                                      *)
Orig_C13 ==
  (/\ Has(pre, "user_id")
   /\ Has(pre, "chat")
   /\ req.route \notin {"logout", "google_callback"})
     => /\ Has(session, "chat")
        /\ Len(session.chat) >= Len(pre.chat)
        /\ SubSeq(session.chat, 1, Len(pre.chat)) = pre.chat

(* a password login or an OAuth callback that has started a session *)
SessionStarted ==
  \/ /\ req.route = "login"
     /\ req.method = "POST"
     /\ ~Has(pre, "user_id")
     /\ response = Redirect("index", "")
  \/ CallbackCompleted

(* C14: a started session holds the user's identity and nothing of the session     *)
(* before it, no oauth_state in particular; and a message submitted as the request *)
(* right after the start is answered with the page, its user turn and an assistant *)
(* turn appended to the transcript.                                                *)
Orig_C14 ==
  [][/\ SessionStarted'
           => /\ Has(session', "user_id")
              /\ DOMAIN session' \subseteq {"user_id", "username", "chat"}
     /\ (/\ SessionStarted
         /\ req'.route = "index"
         /\ req'.method = "POST"
         /\ strip(req'.args.query) # <<>>)
           => /\ response'.status = 200
              /\ Has(session', "chat")
              /\ Len(session'.chat) >= 2
              /\ session'.chat[Len(session'.chat) - 1] = Turn("user", strip(req'.args.query))
              /\ session'.chat[Len(session'.chat)].role = "assistant"]_vars

(* C15: a request other than logout handled on a session authenticated as u leaves *)
(* it authenticated as u; and a session comes to hold an oauth_state only from the *)
(* empty session, by /login/google.                                                *)
Orig_C15 ==
  /\ (Has(pre, "user_id") /\ req.route # "logout")
        => /\ Has(session, "user_id")
           /\ session.user_id = pre.user_id
  /\ (Has(session, "oauth_state") /\ ~Has(pre, "oauth_state"))
        => /\ pre = EmptySession
           /\ req.route = "google_login"

(* a callback that echoed the stored oauth_state and was handled to its end *)
CallbackMatched ==
  /\ req.route = "google_callback"
  /\ Has(pre, "oauth_state")
  /\ req.args.state = pre.oauth_state
  /\ response.status = 302

(* C16: after a callback that echoed the stored oauth_state, whether it started a  *)
(* session or found the email unverified, the session holds no oauth_state, and a  *)
(* callback that follows with the same state is refused and changes nothing.       *)
Orig_C16 ==
  [][/\ CallbackMatched' => ~Has(session', "oauth_state")
     /\ (/\ CallbackMatched
         /\ req'.route = "google_callback"
         /\ req'.args.state = req.args.state)
           => /\ response'.status = 500
              /\ session' = session
              /\ users' = users]_vars

(* C17: a POST / on an authenticated session with a text that has no character    *)
(* other than whitespace leaves the session, and so the transcript, as it was,     *)
(* makes no call to the AI completion client and is answered with the page.        *)
Thm_C17 ==
  (/\ Submitted
   /\ Has(pre, "user_id")
   /\ \A i \in 1..Len(req.args.query) : req.args.query[i] \in WHITESPACE)
     => /\ session = pre
        /\ calls = 0
        /\ response = Render("index.html", "")

Wit_C17 ==
  /\ Submitted
  /\ req.args.query = <<" ">>
  /\ Has(pre, "chat")
  /\ Len(pre.chat) = 3
  /\ session = pre

(* the two turns a submission appends *)
TurnsOf(sub) ==
  <<Turn("user", strip(sub.query)),
    Turn("assistant", IF ~HasKeyword(strip(sub.query)) THEN REFUSAL
                      ELSE ReplyFor(sub.outcome))>>

BothAnswered ==
  /\ DOMAIN inflight = Requests
  /\ \A w \in Requests : inflight[w].pc = "done" /\ strip(inflight[w].sub.query) # <<>>

(* C18: when two submissions of one session, each with a message, have both been   *)
(* answered, the transcript is the one they found followed by the two turns of one *)
(* and then the two turns of the other.                                            *)
Orig_C18 ==
  BothAnswered
     => \E v, w \in Requests :
           /\ v # w
           /\ session.chat = (Greeted \o TurnsOf(inflight[v].sub)) \o TurnsOf(inflight[w].sub)

(* C19: a transcript held by the session is not empty, starts with the assistant   *)
(* greeting, has an odd number of turns, and its roles alternate: assistant at the *)
(* even indexes 0, 2, ..., user at the odd ones.                                   *)
Thm_C19 ==
  Has(session, "chat")
     => /\ Len(session.chat) >= 1
        /\ session.chat[1] = Turn("assistant", GREETING)
        /\ Len(session.chat) % 2 = 1
        /\ \A i \in 1..Len(session.chat) :
              session.chat[i].role = IF i % 2 = 1 THEN "assistant" ELSE "user"

Wit_C19 ==
  /\ Has(session, "chat")
  /\ Len(session.chat) = 3
  /\ Submitted

(* C20: the session holds no key, or oauth_state alone, or user_id and username,   *)
(* or user_id, username and chat.                                                  *)
Thm_C20 ==
  DOMAIN session \in {{}, {"oauth_state"}, {"user_id", "username"},
                      {"user_id", "username", "chat"}}

Wit_C20 ==
  /\ req.route = "google_callback"
  /\ Has(pre, "oauth_state")
  /\ DOMAIN session = {"user_id", "username"}

====
